---------------------------- MODULE Spec2Model ----------------------------
(***************************************************************************)
(* Model of pac_syntax_check.py: the PAC validation engine                 *)
(* validate_pac_content and its file-reading caller check_pac_file.        *)
(*                                                                         *)
(* Text is a sequence of one-character strings.  A finding is a record     *)
(* [msg, n, value]: the fixed wording of the message, the number the       *)
(* f-string interpolates (a line number or a count, 0 when there is none)   *)
(* and the text it interpolates (<<>> when there is none).                 *)
(***************************************************************************)
EXTENDS Integers, Sequences, FiniteSets, TLC

\* Largest number of fragments a file's content is assembled from.
MaxLen == 3

-----------------------------------------------------------------------------
(* Characters *)

LowerLetters ==
    <<"a", "b", "c", "d", "e", "f", "g", "h", "i", "j", "k", "l", "m", "n", "o", "p", "q", "r", "s", "t", "u", "v", "w", "x", "y", "z">>
UpperLetters ==
    <<"A", "B", "C", "D", "E", "F", "G", "H", "I", "J", "K", "L", "M", "N", "O", "P", "Q", "R", "S", "T", "U", "V", "W", "X", "Y", "Z">>

\* str.upper() on one character
Upper(c) ==
    IF \E k \in 1..26 : LowerLetters[k] = c
    THEN UpperLetters[CHOOSE k \in 1..26 : LowerLetters[k] = c]
    ELSE c

\* str.lower() on one character (the case folding re.IGNORECASE compares by)
Lower(c) ==
    IF \E k \in 1..26 : UpperLetters[k] = c
    THEN LowerLetters[CHOOSE k \in 1..26 : UpperLetters[k] = c]
    ELSE c

\* the characters \s matches and str.strip() removes
IsSpace(c) == c \in {" ", "\t", "\n"}

\* the character class ["\']
IsQuote(c) == c \in {"\"", "'"}

\* str.upper()
UpperStr(s) == [k \in 1..Len(s) |-> Upper(s[k])]

\* str.startswith(prefix)
StartsWith(s, prefix) ==
    /\ Len(prefix) <= Len(s)
    /\ \A k \in 1..Len(prefix) : s[k] = prefix[k]

\* str.strip()
Strip(s) ==
    LET keep == {k \in 1..Len(s) : ~IsSpace(s[k])}
    IN  IF keep = {} THEN <<>>
        ELSE SubSeq(s, CHOOSE a \in keep : \A b \in keep : a <= b,
                       CHOOSE a \in keep : \A b \in keep : a >= b)

\* content.split('\n')
RECURSIVE Split(_)
Split(s) ==
    LET nl == {k \in 1..Len(s) : s[k] = "\n"}
    IN  IF nl = {} THEN <<s>>
        ELSE LET p == CHOOSE a \in nl : \A b \in nl : a <= b
             IN  <<SubSeq(s, 1, p - 1)>> \o Split(SubSeq(s, p + 1, Len(s)))

\* `sub in s`
Contains(s, sub) ==
    \E i \in 1..(Len(s) - Len(sub) + 1) :
        \A k \in 1..Len(sub) : s[i + k - 1] = sub[k]

\* ', '.join(names)
RECURSIVE Join(_)
Join(names) ==
    IF names = <<>> THEN <<>>
    ELSE IF Len(names) = 1 THEN names[1]
    ELSE names[1] \o <<",", " ">> \o Join(Tail(names))

-----------------------------------------------------------------------------
(* Regular expressions.  A pattern is a sequence of items; in the three     *)
(* patterns of the program every repeated class is followed by an item      *)
(* that no character of the class can start, so the greedy match is the     *)
(* only match and the matcher needs no backtracking.                        *)

Lit(chars) == [kind |-> "lit", chars |-> chars]
Ws1  == [kind |-> "ws+", chars |-> <<>>]
Ws0  == [kind |-> "ws*", chars |-> <<>>]
Quote == [kind |-> "quote", chars |-> <<>>]
NotQuote0 == [kind |-> "notquote*", chars |-> <<>>]

\* first position at or after i whose character is not whitespace
SkipSpace(s, i) ==
    CHOOSE j \in i..(Len(s) + 1) :
        /\ \A k \in i..(j - 1) : IsSpace(s[k])
        /\ j = Len(s) + 1 \/ ~IsSpace(s[j])

\* first position at or after i whose character is a quote
SkipNotQuote(s, i) ==
    CHOOSE j \in i..(Len(s) + 1) :
        /\ \A k \in i..(j - 1) : ~IsQuote(s[k])
        /\ j = Len(s) + 1 \/ IsQuote(s[j])

LitAt(s, i, chars, ignorecase) ==
    /\ i + Len(chars) - 1 <= Len(s)
    /\ \A k \in 1..Len(chars) :
          IF ignorecase THEN Lower(s[i + k - 1]) = Lower(chars[k])
                        ELSE s[i + k - 1] = chars[k]

\* re.match of items k.. of pat at position i: the position after the
\* match, or 0 when there is none
RECURSIVE MatchFrom(_, _, _, _, _)
MatchFrom(s, i, pat, k, ignorecase) ==
    IF k > Len(pat) THEN i
    ELSE LET it == pat[k] IN
      CASE it.kind = "lit" ->
             IF LitAt(s, i, it.chars, ignorecase)
             THEN MatchFrom(s, i + Len(it.chars), pat, k + 1, ignorecase)
             ELSE 0
        [] it.kind = "ws+" ->
             IF i <= Len(s) /\ IsSpace(s[i])
             THEN MatchFrom(s, SkipSpace(s, i), pat, k + 1, ignorecase)
             ELSE 0
        [] it.kind = "ws*" ->
             MatchFrom(s, SkipSpace(s, i), pat, k + 1, ignorecase)
        [] it.kind = "quote" ->
             IF i <= Len(s) /\ IsQuote(s[i])
             THEN MatchFrom(s, i + 1, pat, k + 1, ignorecase)
             ELSE 0
        [] it.kind = "notquote*" ->
             MatchFrom(s, SkipNotQuote(s, i), pat, k + 1, ignorecase)

\* re.search(pat, s) is not None
Search(pat, s, ignorecase) ==
    \E i \in 1..Len(s) : MatchFrom(s, i, pat, 1, ignorecase) # 0

\* re.findall(pat, s) for a pattern without groups: the leftmost match
\* that starts at or after position i, then the matches after its end
RECURSIVE FindAllFrom(_, _, _)
FindAllFrom(pat, s, i) ==
    LET starts == { j \in i..Len(s) : MatchFrom(s, j, pat, 1, FALSE) # 0 }
    IN  IF starts = {} THEN <<>>
        ELSE LET b == CHOOSE j \in starts : \A j2 \in starts : j <= j2
                 e == MatchFrom(s, b, pat, 1, FALSE)
             IN  <<SubSeq(s, b, e - 1)>> \o FindAllFrom(pat, s, e)

FindAll(pat, s) == FindAllFrom(pat, s, 1)

\* r'function\s+FindProxyForURL\s*\(\s*url\s*,\s*host\s*\)\s*{'
find_proxy_pattern ==
    << Lit(<<"f", "u", "n", "c", "t", "i", "o", "n">>), Ws1,
       Lit(<<"F", "i", "n", "d", "P", "r", "o", "x", "y", "F", "o", "r", "U", "R", "L">>), Ws0,
       Lit(<<"(">>), Ws0, Lit(<<"u", "r", "l">>), Ws0, Lit(<<",">>), Ws0,
       Lit(<<"h", "o", "s", "t">>), Ws0, Lit(<<")">>), Ws0, Lit(<<"{">>) >>

\* r'return\s+["\'][^"\']*["\']'
return_pattern ==
    << Lit(<<"r", "e", "t", "u", "r", "n">>), Ws1, Quote, NotQuote0, Quote >>

\* r'["\']([^"\']*)["\']'
value_pattern == << Quote, NotQuote0, Quote >>

\* re.search(value_pattern, ret).group(1); the search cannot fail on a
\* match of return_pattern
ValueOf(ret) ==
    LET i == CHOOSE a \in 1..Len(ret) :
                 /\ MatchFrom(ret, a, value_pattern, 1, FALSE) # 0
                 /\ \A b \in 1..(a - 1) :
                        MatchFrom(ret, b, value_pattern, 1, FALSE) = 0
        e == MatchFrom(ret, i, value_pattern, 1, FALSE)
    IN  SubSeq(ret, i + 1, e - 2)

valid_prefixes ==
    << <<"D", "I", "R", "E", "C", "T">>,
       <<"P", "R", "O", "X", "Y">>,
       <<"S", "O", "C", "K", "S">>,
       <<"H", "T", "T", "P">>,
       <<"H", "T", "T", "P", "S">> >>

pac_functions ==
    << <<"i", "s", "P", "l", "a", "i", "n", "H", "o", "s", "t", "N", "a", "m", "e">>,
       <<"d", "n", "s", "D", "o", "m", "a", "i", "n", "I", "s">>,
       <<"l", "o", "c", "a", "l", "H", "o", "s", "t", "O", "r", "D", "o", "m", "a", "i", "n", "I", "s">>,
       <<"i", "s", "R", "e", "s", "o", "l", "v", "a", "b", "l", "e">>,
       <<"i", "s", "I", "n", "N", "e", "t">>,
       <<"d", "n", "s", "R", "e", "s", "o", "l", "v", "e">>,
       <<"m", "y", "I", "p", "A", "d", "d", "r", "e", "s", "s">>,
       <<"d", "n", "s", "D", "o", "m", "a", "i", "n", "L", "e", "v", "e", "l", "s">>,
       <<"s", "h", "E", "x", "p", "M", "a", "t", "c", "h">>,
       <<"w", "e", "e", "k", "d", "a", "y", "R", "a", "n", "g", "e">>,
       <<"d", "a", "t", "e", "R", "a", "n", "g", "e">>,
       <<"t", "i", "m", "e", "R", "a", "n", "g", "e">> >>

-----------------------------------------------------------------------------
(* Findings and messages *)

Finding(msg, n, value) == [msg |-> msg, n |-> n, value |-> value]
Plain(msg) == Finding(msg, 0, <<>>)

EmptyMsg        == Plain("Empty file or no content provided")
MissingFunction == Plain("Missing required 'FindProxyForURL(url, host)' function")
FoundFunction   == Plain("Found FindProxyForURL function")
UnmatchedBrace(i) == Finding("Line {i}: Unmatched closing brace", i, <<>>)
UnmatchedParen(i) == Finding("Line {i}: Unmatched closing parenthesis", i, <<>>)
MissingBraces(n) == Finding("Missing {brackets} closing brace(s)", n, <<>>)
ExtraBraces     == Plain("Extra closing brace(s)")
MissingParens(n) == Finding("Missing {parentheses} closing parenthesis", n, <<>>)
ExtraParens     == Plain("Extra closing parenthesis")
FoundReturns(n) == Finding("Found {len(returns)} return statement(s)", n, <<>>)
UnusualReturn(v) == Finding("Unusual return value: '{value}'", 0, v)
ValidReturn(v)  == Finding("Valid return: '{value}'", 0, v)
NoReturns       == Plain("No return statements found")
FunctionsUsed(v) == Finding("PAC functions used: {...}", 0, v)
ErrorsBanner    == Plain("ERRORS:")
WarningsBanner  == Plain("WARNINGS:")
InfoBanner      == Plain("INFO:")
Bullet(f)       == [msg |-> "  * " \o f.msg, n |-> f.n, value |-> f.value]
BlankLine       == Plain("")
ValidBanner     == Plain("PAC file syntax appears valid!")
InvalidBanner   == Plain("PAC file has syntax errors")
UploadPrompt    == Plain("Please upload a PAC file")
ReadError(e)    == Finding("Error reading file: {str(e)}", 0, <<e>>)
FileInfo(size, lines) ==
    << Plain("File: {basename}"),
       Finding("Size: {file_size} characters", size, <<>>),
       Finding("{line_count} lines", lines, <<>>),
       Plain("=================================================="),
       BlankLine >>

\* what a call of validate_pac_content hands back: nothing yet (arity 0),
\* a bare string (arity 1) or a (report, status) pair (arity 2)
NoStatus == "<none>"
NotReturned == [arity |-> 0, report |-> <<>>, status |-> NoStatus]
BareString(m) == [arity |-> 1, report |-> <<m>>, status |-> NoStatus]
Pair(report, status) == [arity |-> 2, report |-> report, status |-> status]

-----------------------------------------------------------------------------
(* The files the upload form can hand to check_pac_file *)

FragDecl       == <<"f", "u", "n", "c", "t", "i", "o", "n", " ", "F", "i", "n", "d", "P", "r", "o", "x", "y", "F", "o", "r", "U", "R", "L", "(", "u", "r", "l", ",", " ", "h", "o", "s", "t", ")", " ", "{">>
FragDeclLoose  == <<"F", "U", "N", "C", "T", "I", "O", "N", "\t", "f", "i", "n", "d", "p", "r", "o", "x", "y", "f", "o", "r", "u", "r", "l", " ", "(", " ", "u", "r", "l", " ", ",", "h", "o", "s", "t", " ", ")", "\n", "{">>
FragDeclNoHost == <<"f", "u", "n", "c", "t", "i", "o", "n", " ", "F", "i", "n", "d", "P", "r", "o", "x", "y", "F", "o", "r", "U", "R", "L", "(", "u", "r", "l", ")", " ", "{">>
FragRetDirect  == <<"r", "e", "t", "u", "r", "n", " ", "\"", "D", "I", "R", "E", "C", "T", "\"", ";">>
FragRetLower   == <<"r", "e", "t", "u", "r", "n", "\t", "'", "d", "i", "r", "e", "c", "t", "\"", ";">>
FragRetHelper  == <<"r", "e", "t", "u", "r", "n", " ", "\"", "i", "s", "I", "n", "N", "e", "t", "\"", ";">>
FragRetBlank   == <<"r", "e", "t", "u", "r", "n", " ", "'", " ", "'", ";">>
FragBlankLine  == <<" ", "\t", "\n">>

Fragments ==
    { FragDecl, FragDeclLoose, FragDeclNoHost, FragRetDirect, FragRetLower,
      FragRetHelper, FragRetBlank, FragBlankLine,
      <<"{">>, <<"}">>, <<"(">>, <<")">> }

RECURSIVE Flatten(_)
Flatten(fs) == IF fs = <<>> THEN <<>> ELSE Head(fs) \o Flatten(Tail(fs))

Contents ==
    { Flatten(fs) : fs \in UNION { [1..n -> Fragments] : n \in 0..MaxLen } }

NoFile == [kind |-> "None", data |-> <<>>]
Files ==
    { NoFile,
      [kind |-> "unreadable", data |-> <<>>],
      [kind |-> "undecodable", data |-> <<>>] }
    \cup { [kind |-> "readable", data |-> c] : c \in Contents }

-----------------------------------------------------------------------------
(* State *)

VARIABLES
    file,          \* the argument of check_pac_file
    pc,            \* position in check_pac_file / validate_pac_content
    content,       \* the text read from the file
    errors, warnings, info,   \* the three lists of findings
    lines, i,      \* content.split('\n') and the 1-based line being scanned
    brackets, parentheses,    \* the two counters of the scan
    returns,       \* re.findall(return_pattern, content)
    result,        \* what validate_pac_content returned
    out            \* what check_pac_file returned

vars == << file, pc, content, errors, warnings, info, lines, i,
           brackets, parentheses, returns, result, out >>

NoOut == [report |-> <<>>, status |-> NoStatus]

Init ==
    /\ file \in Files
    /\ pc = "check_pac_file"
    /\ content = <<>>
    /\ errors = <<>> /\ warnings = <<>> /\ info = <<>>
    /\ lines = <<>> /\ i = 0
    /\ brackets = 0 /\ parentheses = 0
    /\ returns = <<>>
    /\ result = NotReturned
    /\ out = NoOut

engine == << errors, warnings, info, lines, i, brackets, parentheses,
             returns, result >>

-----------------------------------------------------------------------------
(* check_pac_file, up to the call of validate_pac_content *)

\* if file is None: return "Please upload a PAC file", "NO FILE"
CheckPacFileNone ==
    /\ pc = "check_pac_file"
    /\ file.kind = "None"
    /\ out' = [report |-> <<UploadPrompt>>, status |-> "NO FILE"]
    /\ pc' = "done"
    /\ UNCHANGED << file, content, engine >>

\* open() or f.read() raises (OSError, UnicodeDecodeError): except Exception
CheckPacFileReadFails ==
    /\ pc = "check_pac_file"
    /\ file.kind \in {"unreadable", "undecodable"}
    /\ out' = [report |-> <<ReadError(file.kind)>>, status |-> "ERROR"]
    /\ pc' = "done"
    /\ UNCHANGED << file, content, engine >>

\* content = f.read(); validate_pac_content(content) is entered
CheckPacFileRead ==
    /\ pc = "check_pac_file"
    /\ file.kind = "readable"
    /\ content' = file.data
    /\ pc' = "validate_pac_content"
    /\ UNCHANGED << file, out, engine >>

-----------------------------------------------------------------------------
(* validate_pac_content *)

\* not content or not content.strip()
IsBlank(c) == c = <<>> \/ Strip(c) = <<>>

\* return "Empty file or no content provided"
ValidateEmpty ==
    /\ pc = "validate_pac_content"
    /\ IsBlank(content)
    /\ result' = BareString(EmptyMsg)
    /\ pc' = "unpack"
    /\ UNCHANGED << file, content, errors, warnings, info, lines, i,
                    brackets, parentheses, returns, out >>

\* the same check with the test `if re.search(...)`, the `not` lost
FindProxyFindingsInverted(c) ==
    IF Search(find_proxy_pattern, c, TRUE)
    THEN [errors |-> <<MissingFunction>>, info |-> <<>>]
    ELSE [errors |-> <<>>, info |-> <<FoundFunction>>]

\* 1. the findings of the check for the FindProxyForURL function
FindProxyFindings(c) ==
    IF ~Search(find_proxy_pattern, c, TRUE)
    THEN [errors |-> <<MissingFunction>>, info |-> <<>>]
    ELSE [errors |-> <<>>, info |-> <<FoundFunction>>]

CheckFindProxy ==
    /\ pc = "validate_pac_content"
    /\ ~IsBlank(content)
    /\ LET fs == FindProxyFindings(content)
       IN  /\ errors' = fs.errors
           /\ info' = fs.info
    /\ warnings' = <<>>
    /\ brackets' = 0
    /\ parentheses' = 0
    /\ lines' = Split(content)
    /\ i' = 1
    /\ pc' = "brackets"
    /\ UNCHANGED << file, content, returns, result, out >>

\* the scan with `enumerate(lines)`: lines numbered from 0
ScanCharZeroBased(st, char, n) ==
    CASE char = "{" -> [st EXCEPT !.brackets = @ + 1]
      [] char = "}" ->
           [st EXCEPT !.brackets = @ - 1,
                      !.errors = IF st.brackets - 1 < 0
                                 THEN Append(@, UnmatchedBrace(n - 1)) ELSE @]
      [] char = "(" -> [st EXCEPT !.parentheses = @ + 1]
      [] char = ")" ->
           [st EXCEPT !.parentheses = @ - 1,
                      !.errors = IF st.parentheses - 1 < 0
                                 THEN Append(@, UnmatchedParen(n - 1)) ELSE @]
      [] OTHER -> st

\* the scan with `if brackets == -1`: only the first offending closer of a
\* run is reported
ScanCharFirstOnly(st, char, n) ==
    CASE char = "{" -> [st EXCEPT !.brackets = @ + 1]
      [] char = "}" ->
           [st EXCEPT !.brackets = @ - 1,
                      !.errors = IF st.brackets - 1 = -1
                                 THEN Append(@, UnmatchedBrace(n)) ELSE @]
      [] char = "(" -> [st EXCEPT !.parentheses = @ + 1]
      [] char = ")" ->
           [st EXCEPT !.parentheses = @ - 1,
                      !.errors = IF st.parentheses - 1 = -1
                                 THEN Append(@, UnmatchedParen(n)) ELSE @]
      [] OTHER -> st

\* one iteration of `for char in line` on line n; st holds brackets,
\* parentheses and errors
ScanChar(st, char, n) ==
    CASE char = "{" -> [st EXCEPT !.brackets = @ + 1]
      [] char = "}" ->
           [st EXCEPT !.brackets = @ - 1,
                      !.errors = IF st.brackets - 1 < 0
                                 THEN Append(@, UnmatchedBrace(n)) ELSE @]
      [] char = "(" -> [st EXCEPT !.parentheses = @ + 1]
      [] char = ")" ->
           [st EXCEPT !.parentheses = @ - 1,
                      !.errors = IF st.parentheses - 1 < 0
                                 THEN Append(@, UnmatchedParen(n)) ELSE @]
      [] OTHER -> st

\* `for char in line`, characters lo..hi of the line in order: those of
\* the first half, then those of the second half from the state s the
\* first half left
RECURSIVE ScanChars(_, _, _, _, _)
ScanChars(st, line, lo, hi, n) ==
    IF lo > hi THEN st
    ELSE IF lo = hi THEN ScanChar(st, line[lo], n)
    ELSE LET mid == (lo + hi) \div 2
         IN  CHOOSE r \in { ScanChars(s, line, mid + 1, hi, n) :
                              s \in {ScanChars(st, line, lo, mid, n)} } : TRUE

\* one iteration of `for i, line in enumerate(lines, 1)`
ScanLine ==
    /\ pc = "brackets"
    /\ i <= Len(lines)
    /\ LET st == ScanChars([brackets |-> brackets,
                            parentheses |-> parentheses,
                            errors |-> errors], lines[i], 1, Len(lines[i]), i)
       IN  /\ brackets' = st.brackets
           /\ parentheses' = st.parentheses
           /\ errors' = st.errors
    /\ i' = i + 1
    /\ UNCHANGED << file, pc, content, warnings, info, lines, returns,
                    result, out >>

\* the brace summary with the two signs exchanged
BraceSummarySwapped(n) ==
    IF n < 0 THEN <<MissingBraces(n)>>
    ELSE IF n > 0 THEN <<ExtraBraces>> ELSE <<>>

\* if brackets > 0 ... elif brackets < 0 ...
BraceSummary(n) ==
    IF n > 0 THEN <<MissingBraces(n)>>
    ELSE IF n < 0 THEN <<ExtraBraces>> ELSE <<>>

\* the parenthesis summary with `parentheses >= 0`
ParenSummaryAtZero(n) ==
    IF n >= 0 THEN <<MissingParens(n)>>
    ELSE IF n < 0 THEN <<ExtraParens>> ELSE <<>>

\* if parentheses > 0 ... elif parentheses < 0 ...
ParenSummary(n) ==
    IF n > 0 THEN <<MissingParens(n)>>
    ELSE IF n < 0 THEN <<ExtraParens>> ELSE <<>>

\* the loop is over: the two summaries
BracketSummary ==
    /\ pc = "brackets"
    /\ i > Len(lines)
    /\ errors' = errors \o BraceSummary(brackets) \o ParenSummary(parentheses)
    /\ pc' = "returns"
    /\ UNCHANGED << file, content, warnings, info, lines, i, brackets,
                    parentheses, returns, result, out >>

\* the prefix test without .upper()
IsValidValueCaseSensitive(value) ==
    \E p \in 1..Len(valid_prefixes) :
        StartsWith(value, valid_prefixes[p])

\* any(value.upper().startswith(prefix) for prefix in valid_prefixes)
IsValidValue(value) ==
    \E p \in 1..Len(valid_prefixes) :
        StartsWith(UpperStr(value), valid_prefixes[p])

\* the body of `for ret in returns`, from match k on; fs holds warnings
\* and info
RECURSIVE ClassifyReturns(_, _, _)
ClassifyReturns(fs, rets, k) ==
    IF k > Len(rets) THEN fs
    ELSE LET value == Strip(ValueOf(rets[k]))
             next == IF value = <<>> THEN fs
                     ELSE IF ~IsValidValue(value)
                     THEN [fs EXCEPT !.warnings = Append(@, UnusualReturn(value))]
                     ELSE [fs EXCEPT !.info = Append(@, ValidReturn(value))]
         IN  ClassifyReturns(next, rets, k + 1)

\* the count appended after the loop over the matches
ReturnFindingsCountLast(fs, rets) ==
    IF rets # <<>>
    THEN LET cl == ClassifyReturns(fs, rets, 1)
         IN  [cl EXCEPT !.info = Append(@, FoundReturns(Len(rets)))]
    ELSE [fs EXCEPT !.warnings = Append(@, NoReturns)]

\* 3. the findings about return statements, appended to fs
ReturnFindings(fs, rets) ==
    IF rets # <<>>
    THEN ClassifyReturns(
             [fs EXCEPT !.info = Append(@, FoundReturns(Len(rets)))], rets, 1)
    ELSE [fs EXCEPT !.warnings = Append(@, NoReturns)]

CheckReturns ==
    /\ pc = "returns"
    /\ returns' = FindAll(return_pattern, content)
    /\ LET fs == ReturnFindings([warnings |-> warnings, info |-> info],
                                returns')
       IN  /\ warnings' = fs.warnings
           /\ info' = fs.info
    /\ pc' = "pac_functions"
    /\ UNCHANGED << file, content, errors, lines, i, brackets, parentheses,
                    result, out >>

\* found_functions
FoundFunctions(c) ==
    SelectSeq(pac_functions, LAMBDA f : Contains(c, f))

\* 4. the helper functions the text names
CheckPacFunctions ==
    /\ pc = "pac_functions"
    /\ LET found_functions == FoundFunctions(content)
       IN  info' = IF found_functions # <<>>
                   THEN Append(info, FunctionsUsed(Join(found_functions)))
                   ELSE info
    /\ pc' = "report"
    /\ UNCHANGED << file, content, errors, warnings, lines, i, brackets,
                    parentheses, returns, result, out >>

\* one section of the report
Section(banner, items) ==
    IF items # <<>>
    THEN <<banner>> \o [k \in 1..Len(items) |-> Bullet(items[k])]
                    \o <<BlankLine>>
    ELSE <<>>

\* the verdict with the test `if errors`, the `not` lost
StatusOfInverted(errs) == IF errs # <<>> THEN "VALID" ELSE "INVALID"

\* the final verdict
StatusOf(errs) == IF errs = <<>> THEN "VALID" ELSE "INVALID"

Report(errs, warns, inf) ==
    Section(ErrorsBanner, errs) \o Section(WarningsBanner, warns)
        \o Section(InfoBanner, inf)
        \o <<IF StatusOf(errs) = "VALID" THEN ValidBanner ELSE InvalidBanner>>

\* return "\n".join(report), status
Verdict ==
    /\ pc = "report"
    /\ result' = Pair(Report(errors, warnings, info), StatusOf(errors))
    /\ pc' = "unpack"
    /\ UNCHANGED << file, content, errors, warnings, info, lines, i,
                    brackets, parentheses, returns, out >>

-----------------------------------------------------------------------------
(* check_pac_file, after validate_pac_content returned *)

\* result, status = <pair>; return file_info + result, status
CheckPacFileReturn ==
    /\ pc = "unpack"
    /\ result.arity = 2
    /\ out' = [report |-> FileInfo(Len(content), Len(Split(content)))
                              \o result.report,
               status |-> result.status]
    /\ pc' = "done"
    /\ UNCHANGED << file, content, engine >>

\* result, status = <a string that is not two characters long> raises
\* ValueError, which `except Exception` turns into the read-failure report
CheckPacFileUnpackFails ==
    /\ pc = "unpack"
    /\ result.arity = 1
    /\ out' = [report |-> <<ReadError("too many values to unpack (expected 2)")>>,
               status |-> "ERROR"]
    /\ pc' = "done"
    /\ UNCHANGED << file, content, engine >>

Next ==
    \/ CheckPacFileNone
    \/ CheckPacFileReadFails
    \/ CheckPacFileRead
    \/ ValidateEmpty
    \/ CheckFindProxy
    \/ ScanLine
    \/ BracketSummary
    \/ CheckReturns
    \/ CheckPacFunctions
    \/ Verdict
    \/ CheckPacFileReturn
    \/ CheckPacFileUnpackFails

Spec == Init /\ [][Next]_vars

-----------------------------------------------------------------------------
(* Vocabulary of the properties, computed from the text alone *)

Range(s) == { s[k] : k \in DOMAIN s }
Count(s, x) == Cardinality({ k \in DOMAIN s : s[k] = x })
WithMsg(s, m) == SelectSeq(s, LAMBDA f : f.msg = m)

\* validate_pac_content has just returned a (report, status) pair: the
\* three lists, the counters and the matches are final
Returned == pc = "unpack" /\ result.arity = 2

AllWhitespace(c) == \A k \in 1..Len(c) : IsSpace(c[k])

\* openers minus closers among the first p characters of the text
Balance(open, close, p) ==
    Cardinality({ q \in 1..p : content[q] = open })
        - Cardinality({ q \in 1..p : content[q] = close })

\* 1-based line of position p
LineOf(p) == 1 + Cardinality({ q \in 1..(p - 1) : content[q] = "\n" })

\* nesting depth after p characters when a closer without an opener is
\* left out of the pairing; only the last bracket at or before p changes
\* the depth reached before it
RECURSIVE Depth(_, _, _)
Depth(open, close, p) ==
    LET bs == { q \in 1..p : content[q] \in {open, close} }
    IN  IF bs = {} THEN 0
        ELSE LET last == CHOOSE q \in bs : \A r \in bs : r <= q
                 d == Depth(open, close, last - 1)
             IN  IF content[last] = open THEN d + 1
                 ELSE IF d > 0 THEN d - 1
                 ELSE d

\* the closers that pair with no opener
Unmatched(open, close) ==
    { p \in 1..Len(content) :
        content[p] = close /\ Depth(open, close, p - 1) = 0 }

\* the closers that leave the running balance negative
Negative(open, close) ==
    { p \in 1..Len(content) :
        content[p] = close /\ Balance(open, close, p) < 0 }

\* the text between the first quote of a match and its last character
ExtractedValue(ret) ==
    LET q == CHOOSE a \in 1..Len(ret) :
                 IsQuote(ret[a]) /\ \A b \in 1..(a - 1) : ~IsQuote(ret[b])
    IN  Strip(SubSeq(ret, q + 1, Len(ret) - 1))

HasPrefixIgnoringCase(v) ==
    \E p \in 1..Len(valid_prefixes) :
        /\ Len(valid_prefixes[p]) <= Len(v)
        /\ \A k \in 1..Len(valid_prefixes[p]) :
               Lower(v[k]) = Lower(valid_prefixes[p][k])

\* the trimmed non-empty values of the matches, in the order of the text
Values ==
    SelectSeq([k \in 1..Len(returns) |-> ExtractedValue(returns[k])],
              LAMBDA v : v # <<>>)
ValidValues == SelectSeq(Values, HasPrefixIgnoringCase)
UnusualValues == SelectSeq(Values, LAMBDA v : ~HasPrefixIgnoringCase(v))

-----------------------------------------------------------------------------
(* Properties *)

\* C1: blank input (empty or only whitespace) returns the fixed empty-input
\* message together with a status that is neither VALID nor INVALID, and no
\* check runs (no finding of any severity).
EmptyInputHasDistinctStatus ==
    (result.arity # 0 /\ AllWhitespace(content)) =>
        /\ result.arity = 2
        /\ result.status \notin {"VALID", "INVALID"}
        /\ result.report = <<EmptyMsg>>
        /\ errors = <<>> /\ warnings = <<>> /\ info = <<>>

\* C2: for non-blank input the status is INVALID exactly when the error
\* list is non-empty at the end of the four checks and VALID otherwise,
\* whatever the warnings and info are.
VerdictFollowsErrors ==
    Returned =>
        /\ result.status = "INVALID" <=> errors # <<>>
        /\ result.status = "VALID" <=> errors = <<>>

VerdictWitness ==
    /\ Returned
    /\ result.status = "VALID"
    /\ warnings # <<>>
    /\ Len(info) >= 2

\* C3: a non-blank script without a match of the declaration is INVALID and
\* its errors hold the missing-function message exactly once, whatever else
\* it contains.
MissingFunctionReportedOnce ==
    (Returned /\ ~Search(find_proxy_pattern, content, TRUE)) =>
        /\ result.status = "INVALID"
        /\ Count(errors, MissingFunction) = 1

MissingFunctionWitness ==
    /\ Returned
    /\ Contains(content, FragDeclNoHost)
    /\ ~Search(find_proxy_pattern, content, TRUE)
    /\ Len(errors) >= 2
    /\ returns # <<>>
    /\ Count(errors, MissingFunction) = 1

\* C4: a script with exactly one unmatched closing brace, on line L, has the
\* error "Line L: Unmatched closing brace" and is INVALID.
UnmatchedBraceNamesItsLine ==
    (Returned /\ Cardinality(Unmatched("{", "}")) = 1) =>
        /\ \A p \in Unmatched("{", "}") :
               UnmatchedBrace(LineOf(p)) \in Range(errors)
        /\ result.status = "INVALID"

UnmatchedBraceWitness ==
    /\ Returned
    /\ Cardinality(Unmatched("{", "}")) = 1
    /\ \E p \in Unmatched("{", "}") :
           /\ LineOf(p) >= 2
           /\ UnmatchedBrace(LineOf(p)) \in Range(errors)

\* C5: a script with N > 0 unclosed opening braces and no unmatched closing
\* brace has exactly one brace-count error, "Missing N closing brace(s)",
\* no "Extra closing brace(s)" and no line-tagged unmatched-brace error.
MissingBracesCounted ==
    (Returned /\ Unmatched("{", "}") = {}
              /\ Depth("{", "}", Len(content)) > 0) =>
        /\ WithMsg(errors, MissingBraces(0).msg)
               = <<MissingBraces(Depth("{", "}", Len(content)))>>
        /\ ExtraBraces \notin Range(errors)
        /\ WithMsg(errors, UnmatchedBrace(0).msg) = <<>>

MissingBracesWitness ==
    /\ Returned
    /\ Unmatched("{", "}") = {}
    /\ Depth("{", "}", Len(content)) >= 2
    /\ MissingBraces(2) \in Range(errors)

\* C6: a script with a matching declaration, balanced braces and
\* parentheses and at least one return of a quoted DIRECT/PROXY-style value
\* is VALID and has no error.
WellFormedIsValid ==
    (/\ Returned
     /\ Search(find_proxy_pattern, content, TRUE)
     /\ Unmatched("{", "}") = {} /\ Depth("{", "}", Len(content)) = 0
     /\ Unmatched("(", ")") = {} /\ Depth("(", ")", Len(content)) = 0
     /\ ValidValues # <<>>) =>
        /\ result.status = "VALID"
        /\ errors = <<>>

WellFormedWitness ==
    /\ Returned
    /\ Search(find_proxy_pattern, content, TRUE)
    /\ Unmatched("{", "}") = {} /\ Depth("{", "}", Len(content)) = 0
    /\ Unmatched("(", ")") = {} /\ Depth("(", ")", Len(content)) = 0
    /\ ValidValues # <<>>
    /\ result.status = "VALID"
    /\ info = <<FoundFunction, FoundReturns(1), ValidReturn(ValidValues[1])>>

\* C7: every extracted value that is non-empty after trimming produces
\* exactly one finding: INFO "Valid return" when it starts, ignoring case,
\* with DIRECT, PROXY, SOCKS, HTTP or HTTPS, WARNING "Unusual return value"
\* otherwise; a value that is empty after trimming produces none.
ReturnValuesClassified ==
    Returned =>
        /\ WithMsg(info, ValidReturn(<<>>).msg)
               = [k \in 1..Len(ValidValues) |-> ValidReturn(ValidValues[k])]
        /\ WithMsg(warnings, UnusualReturn(<<>>).msg)
               = [k \in 1..Len(UnusualValues) |->
                      UnusualReturn(UnusualValues[k])]

ReturnValuesWitness ==
    /\ Returned
    /\ Len(returns) = 3
    /\ Len(Values) = 2
    /\ Len(UnusualValues) = 1
    /\ \E k \in 1..Len(ValidValues) :
           /\ ValidValues[k] # UpperStr(ValidValues[k])
           /\ ValidReturn(ValidValues[k]) \in Range(info)

\* C8: the two counters are tracked independently; every closing brace
\* (parenthesis) that leaves its counter negative has its own error tagged
\* with its line; after the scan each kind has one summary error when its
\* final counter is not zero: "Missing {count} ..." with the counter when
\* positive, "Extra ..." without a count when negative, none when zero.
EveryNegativeCloserReported ==
    Returned =>
        LET nb == Balance("{", "}", Len(content))
            np == Balance("(", ")", Len(content))
        IN  /\ brackets = nb
            /\ parentheses = np
            /\ \A L \in 1..Len(lines) :
                 /\ Count(errors, UnmatchedBrace(L))
                      = Cardinality({ q \in Negative("{", "}") : LineOf(q) = L })
                 /\ Count(errors, UnmatchedParen(L))
                      = Cardinality({ q \in Negative("(", ")") : LineOf(q) = L })
            /\ Len(WithMsg(errors, UnmatchedBrace(0).msg))
                 = Cardinality(Negative("{", "}"))
            /\ Len(WithMsg(errors, UnmatchedParen(0).msg))
                 = Cardinality(Negative("(", ")"))
            /\ WithMsg(errors, MissingBraces(0).msg)
                 = IF nb > 0 THEN <<MissingBraces(nb)>> ELSE <<>>
            /\ WithMsg(errors, ExtraBraces.msg)
                 = IF nb < 0 THEN <<ExtraBraces>> ELSE <<>>
            /\ WithMsg(errors, MissingParens(0).msg)
                 = IF np > 0 THEN <<MissingParens(np)>> ELSE <<>>
            /\ WithMsg(errors, ExtraParens.msg)
                 = IF np < 0 THEN <<ExtraParens>> ELSE <<>>

EveryNegativeCloserWitness ==
    /\ Returned
    /\ Cardinality(Negative("{", "}")) = 2
    /\ Cardinality({ LineOf(q) : q \in Negative("{", "}") }) = 2
    /\ brackets = -2
    /\ ExtraBraces \in Range(errors)

\* C9: with no return-statement match there is exactly one WARNING "No
\* return statements found" and no count INFO; otherwise there is exactly
\* one INFO with the total number of matches (the skipped empty ones
\* included), it precedes every "Valid return" INFO, and the per-value
\* findings come in the order of the matches.
ReturnCountComesFirst ==
    Returned =>
        IF returns = <<>>
        THEN /\ Count(warnings, NoReturns) = 1
             /\ WithMsg(info, FoundReturns(0).msg) = <<>>
        ELSE /\ WithMsg(info, FoundReturns(0).msg)
                  = <<FoundReturns(Len(returns))>>
             /\ \A j, k \in DOMAIN info :
                    (info[j] = FoundReturns(Len(returns))
                        /\ info[k].msg = ValidReturn(<<>>).msg) => j < k
             /\ [k \in 1..Len(ValidValues) |->
                     WithMsg(info, ValidReturn(<<>>).msg)[k].value]
                  = ValidValues
             /\ [k \in 1..Len(UnusualValues) |->
                     WithMsg(warnings, UnusualReturn(<<>>).msg)[k].value]
                  = UnusualValues

ReturnCountWitness ==
    /\ Returned
    /\ Len(returns) = 3
    /\ Len(Values) = 2
    /\ Len(ValidValues) = 2
    /\ ValidValues[1] # ValidValues[2]
    /\ FoundReturns(3) \in Range(info)

\* C10: check_pac_file always returns a (report, status) pair; the status is
\* "ERROR" when reading or decoding the file fails, and a file that was read
\* (an empty or whitespace-only one included) gets the engine's outcome for
\* its content, not a read-failure report.
ReadFilesGetEngineOutcome ==
    pc = "done" =>
        /\ file.kind \in {"unreadable", "undecodable"} => out.status = "ERROR"
        /\ file.kind = "readable" =>
              /\ out.status # "ERROR"
              /\ \A k \in DOMAIN out.report :
                     out.report[k].msg # ReadError("").msg
====
